---- MODULE Spec2Model ----
(***************************************************************************)
(* Model of the HashrateIndex GraphQL client: class API of                 *)
(* hashrateindex.py (request, the six get_* operations, exec) and class    *)
(* RESOLVERS of resolvers.py.                                              *)
(*                                                                         *)
(* Python strings that the code inspects character by character (the       *)
(* currency, the interval, the exec parameter string) are sequences of     *)
(* one-character strings.  Python values that the code passes around are   *)
(* tagged records (StrV, IntV, NoneV), JSON trees are tagged records       *)
(* (Obj, JList, JNull).                                                    *)
(***************************************************************************)
EXTENDS Integers, Sequences, FiniteSets, TLC

\* Bounds of the model.
MaxCalls == 2
MaxArgs == 2

\* 'first': 10000, the page size of get_hashprice and get_network_hashrate.
PageSize == 10000
\* 'last': 1 of get_bitcoin_overview.
LastCount == 1

----------------------------------------------------------------------------
\* Python values.

StrV(s) == [t |-> "str", s |-> s, i |-> 0]
IntV(i) == [t |-> "int", s |-> <<>>, i |-> i]
NoneV == [t |-> "none", s |-> <<>>, i |-> 0]

\* JSON trees, as json.loads builds them.
Obj(f) == [t |-> "obj", f |-> f]
JList(l) == [t |-> "list", l |-> l]
JNull == [t |-> "null"]

\* Outcomes of a call: a returned value or a raised exception.
Return(v) == [kind |-> "return", val |-> v, err |-> "", msg |-> <<>>]
Raise(e, m) == [kind |-> "raise", val |-> NoneV, err |-> e, msg |-> m]

----------------------------------------------------------------------------
\* Characters.

Digits == {"0", "1", "2", "3", "4", "5", "6", "7", "8", "9"}

\* Characters for which str.isdigit() is true but which int() rejects
\* (Unicode category No with a digit value, e.g. SUPERSCRIPT TWO).
SuperscriptDigits == {"^2"}

DigitValue(c) == CASE c = "0" -> 0 [] c = "1" -> 1 [] c = "2" -> 2 [] c = "3" -> 3 [] c = "4" -> 4 [] c = "5" -> 5 [] c = "6" -> 6 [] c = "7" -> 7 [] c = "8" -> 8 [] c = "9" -> 9

LowerOf == [c \in {"U", "S", "D", "B", "T", "C", "E", "R", "A", "L", "Y", "M", "O", "N", "H"} |-> CASE c = "U" -> "u" [] c = "S" -> "s" [] c = "D" -> "d" [] c = "B" -> "b" [] c = "T" -> "t" [] c = "C" -> "c" [] c = "E" -> "e" [] c = "R" -> "r" [] c = "A" -> "a" [] c = "L" -> "l" [] c = "Y" -> "y" [] c = "M" -> "m" [] c = "O" -> "o" [] c = "N" -> "n" [] c = "H" -> "h"]

\* lower with a slip: the string is used as given.
lower_Identity(s) == s

\* str.lower(): every cased character is replaced by its lowercase form.
lower(s) == [k \in 1..Len(s) |-> IF s[k] \in DOMAIN LowerOf THEN LowerOf[s[k]] ELSE s[k]]

\* str.isdigit(): non-empty and every character is a digit character.
isdigit(s) == Len(s) > 0 /\ \A k \in 1..Len(s) : s[k] \in Digits \cup SuperscriptDigits

\* Whether int(s) accepts the string (as far as exec can ask: s.isdigit() holds).
IntAccepts(s) == Len(s) > 0 /\ \A k \in 1..Len(s) : s[k] \in Digits

RECURSIVE IntOf(_)
\* int(s) for a string of decimal digits.
IntOf(s) == IF Len(s) = 0 THEN 0 ELSE 10 * IntOf(SubSeq(s, 1, Len(s) - 1)) + DigitValue(s[Len(s)])

RECURSIVE split_Underscore(_)
\* split with a slip: the separator is '_' instead of ','.
split_Underscore(s) == IF \A k \in 1..Len(s) : s[k] # "_" THEN <<s>> ELSE LET p == CHOOSE k \in 1..Len(s) : s[k] = "_" /\ \A j \in 1..(k - 1) : s[j] # "_" IN <<SubSeq(s, 1, p - 1)>> \o split_Underscore(SubSeq(s, p + 1, Len(s)))

RECURSIVE split(_)
\* str.split(','): the pieces between the commas, empty pieces kept.
split(s) == IF \A k \in 1..Len(s) : s[k] # "," THEN <<s>> ELSE LET p == CHOOSE k \in 1..Len(s) : s[k] = "," /\ \A j \in 1..(k - 1) : s[j] # "," IN <<SubSeq(s, 1, p - 1)>> \o split(SubSeq(s, p + 1, Len(s)))

RECURSIVE Join(_)
\* ','.join(args): how a caller writes a parameter string for exec.
Join(args) == IF Len(args) = 0 THEN <<>> ELSE IF Len(args) = 1 THEN args[1] ELSE args[1] \o <<",">> \o Join(Tail(args))

----------------------------------------------------------------------------
\* The transport: what s.request gives back.

StatusCodes == {200, 201, 204, 404, 500}

\* str(response.status_code)
StatusStr == [c \in StatusCodes |-> CASE c = 200 -> "200" [] c = 201 -> "201" [] c = 204 -> "204" [] c = 404 -> "404" [] c = 500 -> "500"]

\* response.reason
ReasonOf == [c \in StatusCodes |-> CASE c = 200 -> "OK" [] c = 201 -> "Created" [] c = 204 -> "No Content" [] c = 404 -> "Not Found" [] c = 500 -> "Internal Server Error"]

\* response.content: enc is "empty" (no bytes), "utf8" (bytes that decode) or
\* "bad" (bytes that are not valid UTF-8); text is what decode() gives; json
\* says whether the text is a JSON document and tree is its parse.
EmptyContent == [enc |-> "empty", text |-> "", json |-> FALSE, tree |-> JNull]
TextContent(s) == [enc |-> "utf8", text |-> s, json |-> FALSE, tree |-> JNull]
BadContent == [enc |-> "bad", text |-> "", json |-> FALSE, tree |-> JNull]
JsonContent(s, tr) == [enc |-> "utf8", text |-> s, json |-> TRUE, tree |-> tr]

HttpResponse(c, body) == [kind |-> "response", status_code |-> c, reason |-> ReasonOf[c], content |-> body]
\* s.request raises (DNS, timeout, connection reset): no response at all.
TransportFailure == [kind |-> "failure", status_code |-> 0, reason |-> "", content |-> EmptyContent]

----------------------------------------------------------------------------
\* JSON envelopes the remote service may answer with.

\* Records of the payload array.
RowPrice == Obj([timestamp |-> 1, difficulty |-> 11, price |-> 101])
RowOhlc == Obj([timestamp |-> 2, open |-> 5, close |-> 6])
RowNode == Obj([timestamp |-> 3, value |-> 7])

\* Bound on the number of records of a getChartBySlug payload.
MaxRows == 2

RowLists == UNION {[1..n -> {RowPrice, RowOhlc}] : n \in 0..MaxRows}

\* {"data": {field: {leaf: payload}}}
Envelope(field, leaf, payload) == Obj([data |-> Obj(field :> Obj(leaf :> payload))])

GoodEnvelopes ==
    {Envelope("getChartBySlug", "data", JList(rows)) : rows \in RowLists}
    \cup {Envelope("bitcoinOverviews", "nodes", JList(<<RowNode>>)),
          Envelope("getHashprice", "nodes", JList(<<RowNode, RowNode>>)),
          Envelope("getNetworkHashrate", "nodes", JList(<<>>)),
          Envelope("getNetworkHashrate", "nodes", JList(<<RowNode>>))}

\* Bodies of status 200 that are JSON but not the envelope of the operation:
\* an error-shaped body, a null or empty data, a field without its leaf, and
\* a leaf that is present but null or an empty object.
OddEnvelopes ==
    {Obj([errors |-> JList(<<>>)]),
     Obj([data |-> JNull]),
     Obj([data |-> Obj(<<>>)]),
     Obj([data |-> Obj("getChartBySlug" :> Obj(<<>>))]),
     Obj([data |-> Obj("getHashprice" :> Obj(<<>>))]),
     Obj([data |-> Obj("getNetworkHashrate" :> JNull)]),
     Envelope("getChartBySlug", "data", JNull),
     Envelope("getChartBySlug", "data", Obj(<<>>)),
     Envelope("bitcoinOverviews", "nodes", JNull)}

Envelopes == GoodEnvelopes \cup OddEnvelopes

ErrorBody == JsonContent("{errors}", Obj([errors |-> JList(<<>>)]))

\* What the transport may do on one call.
Responses ==
    {TransportFailure}
    \cup {HttpResponse(200, JsonContent("json", e)) : e \in Envelopes}
    \cup {HttpResponse(200, EmptyContent),
          HttpResponse(200, TextContent("<html>")),
          HttpResponse(201, ErrorBody),
          HttpResponse(201, JsonContent("json", Envelope("getNetworkHashrate", "nodes", JList(<<RowNode>>)))),
          HttpResponse(204, EmptyContent),
          HttpResponse(404, TextContent("<html>")),
          HttpResponse(404, EmptyContent),
          HttpResponse(500, ErrorBody),
          HttpResponse(500, EmptyContent),
          HttpResponse(500, BadContent)}

----------------------------------------------------------------------------
\* class API

\* What one call of a method did: its outcome, the request bodies handed to
\* the transport, the queries logged, and (exec only) the call it forwarded.
Effect(out, sent, logged) == [out |-> out, sent |-> sent, logged |-> logged, fwd |-> <<>>]

\* interpret with a slip: every 2xx status is a success.
interpret_Any2xx(resp) ==
    IF resp.status_code \in 200..299
    THEN (IF resp.content.json THEN Return(resp.content.tree) ELSE Raise("JSONDecodeError", <<>>))
    ELSE IF resp.content.enc # "empty"
    THEN (IF resp.content.enc = "bad"
          THEN Raise("UnicodeDecodeError", <<>>)
          ELSE Raise("Exception", <<StatusStr[resp.status_code], ": ", resp.reason, ": ", resp.content.text>>))
    ELSE Raise("Exception", <<StatusStr[resp.status_code], ": ", resp.reason>>)

\* request, lines 107-114: the status interpretation of a response.
interpret(resp) ==
    IF resp.status_code = 200
    THEN (IF resp.content.json THEN Return(resp.content.tree) ELSE Raise("JSONDecodeError", <<>>))
    ELSE IF resp.content.enc # "empty"
    THEN (IF resp.content.enc = "bad"
          THEN Raise("UnicodeDecodeError", <<>>)
          ELSE Raise("Exception", <<StatusStr[resp.status_code], ": ", resp.reason, ": ", resp.content.text>>))
    ELSE Raise("Exception", <<StatusStr[resp.status_code], ": ", resp.reason>>)

\* json.dumps({'query': query, 'variables': params}).encode('utf-8')
RequestBody(query, params) == [query |-> query, variables |-> params]

\* request with a slip: a call that does not succeed is issued a second time.
request_Retry(verbose, query, params, resp) ==
    IF resp.kind = "failure"
    THEN Effect(Raise("ConnectionError", <<>>), <<RequestBody(query, params), RequestBody(query, params)>>, IF verbose THEN <<query>> ELSE <<>>)
    ELSE Effect(interpret(resp),
                IF resp.status_code = 200 THEN <<RequestBody(query, params)>> ELSE <<RequestBody(query, params), RequestBody(query, params)>>,
                IF verbose THEN <<query>> ELSE <<>>)

\* API.request: log the query when verbose, hand one body to the transport,
\* interpret the response; a transport failure propagates.
request(verbose, query, params, resp) ==
    Effect(IF resp.kind = "failure" THEN Raise("ConnectionError", <<>>) ELSE interpret(resp),
           <<RequestBody(query, params)>>,
           IF verbose THEN <<query>> ELSE <<>>)

\* A call that raises before request is reached.
Fails(e, m) == Effect(Raise(e, m), <<>>, <<>>)

\* ValidCurrency with a slip: every currency is let through.
ValidCurrency_Any(currency) == TRUE

\* currency.lower() in ['btc', 'usd']
ValidCurrency(currency) == lower(currency) \in {<<"b", "t", "c">>, <<"u", "s", "d">>}

\* API.get_bitcoin_overview
get_bitcoin_overview(verbose, resp) ==
    request(verbose,
            StrV(<<"query bitcoinOverviews($last: Int!) {bitcoinOverviews(last: $last) {nodes{...}}}">>),
            [last |-> IntV(LastCount)],
            resp)

\* The query text of get_hashprice: the template with {field} formatted in.
HashpriceQuery(field) ==
    StrV(<<"query get_hashprice($inputInterval: ChartsInterval!, $first: Int) { getHashprice(inputInterval: $inputInterval, first: $first) { nodes { timestamp ">>
         \o field \o <<" } } }">>)

\* API.get_hashprice
get_hashprice(verbose, inputInterval, currency, resp) ==
    IF currency.t # "str" THEN Fails("AttributeError", <<>>)
    ELSE IF ~ValidCurrency(currency.s) THEN Fails("Exception", <<"Invalid currency input">>)
    ELSE request(verbose,
                 HashpriceQuery(lower(currency.s) \o <<"Hashprice">>),
                 [inputInterval |-> inputInterval, first |-> IntV(PageSize)],
                 resp)

\* API.get_network_hashrate
get_network_hashrate(verbose, inputInterval, resp) ==
    request(verbose,
            StrV(<<"query get_network_hashrate($inputInterval: ChartsInterval!, $first: Int) { getNetworkHashrate(inputInterval: $inputInterval, first: $first) { nodes { timestamp networkHashrate } } }">>),
            [inputInterval |-> inputInterval, first |-> IntV(PageSize)],
            resp)

\* API.get_ohlc_prices
get_ohlc_prices(verbose, inputInterval, resp) ==
    request(verbose,
            StrV(<<"query get_ohlc_prices($inputInterval: ChartsInterval, $inputSlug: String) { getChartBySlug(inputInterval: $inputInterval, inputSlug: $inputSlug) { data } }">>),
            [inputInterval |-> inputInterval, inputSlug |-> StrV(<<"bitcoin-ohlc">>)],
            resp)

\* API.get_asic_price_index
get_asic_price_index(verbose, inputInterval, currency, resp) ==
    IF currency.t # "str" THEN Fails("AttributeError", <<>>)
    ELSE IF ~ValidCurrency(currency.s) THEN Fails("Exception", <<"Invalid currency input">>)
    ELSE request(verbose,
                 StrV(<<"query get_asic_price_index($inputInterval: ChartsInterval, $inputSlug: String) { getChartBySlug(inputInterval: $inputInterval, inputSlug: $inputSlug) { data } }">>),
                 [inputInterval |-> inputInterval, inputSlug |-> StrV(<<"asic-price-index-">> \o lower(currency.s))],
                 resp)

----------------------------------------------------------------------------
\* Subscripts into a JSON tree, with the exceptions Python raises.

\* Subscript with a slip: a missing key or a non-object yields null, as
\* dict.get would.
Subscript_Get(o, key) ==
    IF o.kind = "raise" THEN o
    ELSE IF o.val.t = "obj" /\ key \in DOMAIN o.val.f THEN Return(o.val.f[key])
    ELSE Return(JNull)

\* o[key] where o is the outcome so far: KeyError when an object lacks the
\* key, TypeError when the value is not an object (null, list).
Subscript(o, key) ==
    IF o.kind = "raise" THEN o
    ELSE IF o.val.t = "obj"
    THEN (IF key \in DOMAIN o.val.f THEN Return(o.val.f[key]) ELSE Raise("KeyError", <<key>>))
    ELSE Raise("TypeError", <<>>)

\* json['data'][field][leaf]
Extract(json, field, leaf) == Subscript(Subscript(Subscript(Return(json), "data"), field), leaf)

\* DelPrice with a slip: the record is left as it is.
DelPrice_Keep(element) == element

\* del element["price"], for an element that has the key.
DelPrice(element) == Obj([k \in DOMAIN element.f \ {"price"} |-> element.f[k]])

\* The loop of get_network_difficulty over result["data"]["getChartBySlug"]["data"]:
\* the envelope with price deleted from every element, KeyError when an
\* element has no price, TypeError when the payload cannot be iterated.
StripPrices(result) ==
    LET data == Extract(result, "getChartBySlug", "data")
    IN  IF data.kind = "raise" THEN data
        ELSE IF data.val.t = "list"
        THEN (IF \E k \in 1..Len(data.val.l) : "price" \notin DOMAIN data.val.l[k].f
              THEN Raise("KeyError", <<"price">>)
              ELSE Return([result EXCEPT !.f["data"].f["getChartBySlug"].f["data"].l = [k \in 1..Len(data.val.l) |-> DelPrice(data.val.l[k])]]))
        ELSE IF data.val.t = "obj" /\ DOMAIN data.val.f = {} THEN Return(result)
        ELSE Raise("TypeError", <<>>)

\* API.get_network_difficulty
get_network_difficulty(verbose, inputInterval, resp) ==
    LET r == request(verbose,
                     StrV(<<"query get_price_difficulty($inputInterval: ChartsInterval, $inputSlug: String) { getChartBySlug(inputInterval: $inputInterval, inputSlug: $inputSlug) { data } }">>),
                     [inputInterval |-> inputInterval, inputSlug |-> StrV(<<"bitcoin-price-and-difficulty">>)],
                     resp)
    IN  IF r.out.kind = "raise" THEN r ELSE [r EXCEPT !.out = StripPrices(r.out.val)]

----------------------------------------------------------------------------
\* API.exec

\* The methods class API defines, and the attributes __init__ sets.
Methods == {"request", "get_bitcoin_overview", "get_hashprice", "get_network_hashrate", "get_network_difficulty", "get_ohlc_prices", "get_asic_price_index", "exec"}
InstanceAttrs == {"host", "key", "method", "verbose"}

\* hasattr(self, method) and callable(getattr(self, method))
IsCallableAttr(method) == method \in Methods \cup InstanceAttrs /\ method \in Methods

\* The argument list exec builds: int(arg) for an arg with arg.isdigit(),
\* the arg itself otherwise.
Coerce(pieces) ==
    [k \in 1..Len(pieces) |-> IF isdigit(pieces[k]) THEN IntV(IntOf(pieces[k])) ELSE StrV(pieces[k])]

\* func(*args): TypeError when the number of arguments does not fit.
Apply(verbose, method, args, resp) ==
    CASE method = "request" ->
           IF Len(args) = 1 THEN request(verbose, args[1], NoneV, resp)
           ELSE IF Len(args) = 2 THEN request(verbose, args[1], args[2], resp)
           ELSE Fails("TypeError", <<>>)
      [] method = "get_bitcoin_overview" ->
           IF Len(args) = 0 THEN get_bitcoin_overview(verbose, resp) ELSE Fails("TypeError", <<>>)
      [] method = "get_hashprice" ->
           IF Len(args) = 2 THEN get_hashprice(verbose, args[1], args[2], resp) ELSE Fails("TypeError", <<>>)
      [] method = "get_network_hashrate" ->
           IF Len(args) = 1 THEN get_network_hashrate(verbose, args[1], resp) ELSE Fails("TypeError", <<>>)
      [] method = "get_network_difficulty" ->
           IF Len(args) = 1 THEN get_network_difficulty(verbose, args[1], resp) ELSE Fails("TypeError", <<>>)
      [] method = "get_ohlc_prices" ->
           IF Len(args) = 1 THEN get_ohlc_prices(verbose, args[1], resp) ELSE Fails("TypeError", <<>>)
      [] method = "get_asic_price_index" ->
           IF Len(args) = 2 THEN get_asic_price_index(verbose, args[1], args[2], resp) ELSE Fails("TypeError", <<>>)

\* The call exec forwards, recorded with the effect of the method called.
Forward(verbose, method, args, resp) == [Apply(verbose, method, args, resp) EXCEPT !.fwd = <<[func |-> method, args |-> args]>>]

\* API.exec: int(arg) raises ValueError for a digit character it rejects.
exec(verbose, method, params, resp) ==
    IF IsCallableAttr(method)
    THEN (IF Len(params) = 0 THEN Forward(verbose, method, <<>>, resp)
          ELSE IF \E k \in 1..Len(split(params)) : isdigit(split(params)[k]) /\ ~IntAccepts(split(params)[k])
          THEN Fails("ValueError", <<>>)
          ELSE Forward(verbose, method, Coerce(split(params)), resp))
    ELSE Fails("Exception", <<"failed to execute ", method>>)

----------------------------------------------------------------------------
\* class RESOLVERS

\* pd.DataFrame(data) of a list of records: the columns are the fields of
\* the records (their order is not modelled), a row lacks no column (NaN,
\* written -1, where the record has no such field); None and {} give an
\* empty frame.
DataFrame(data) ==
    IF data.t # "list" THEN [t |-> "df", columns |-> {}, rows |-> <<>>]
    ELSE LET cols == UNION {DOMAIN data.l[k].f : k \in 1..Len(data.l)}
         IN  [t |-> "df", columns |-> cols,
              rows |-> [k \in 1..Len(data.l) |-> [c \in cols |-> IF c \in DOMAIN data.l[k].f THEN data.l[k].f[c] ELSE -1]]]

\* The body every resolve_get_* shares: extract, then a frame when self.df.
Resolve(df, json, field, leaf) ==
    LET data == Extract(json, field, leaf)
    IN  IF data.kind = "raise" THEN data
        ELSE IF df
        THEN (IF data.val.t \in {"list", "null"} \/ (data.val.t = "obj" /\ DOMAIN data.val.f = {})
              THEN Return(DataFrame(data.val))
              ELSE Raise("ValueError", <<>>))
        ELSE data

resolve_get_bitcoin_overview(df, json) == Resolve(df, json, "bitcoinOverviews", "nodes")
resolve_get_hashprice(df, json) == Resolve(df, json, "getHashprice", "nodes")
resolve_get_network_hashrate(df, json) == Resolve(df, json, "getNetworkHashrate", "nodes")
resolve_get_network_difficulty(df, json) == Resolve(df, json, "getChartBySlug", "data")
resolve_get_ohlc_prices(df, json) == Resolve(df, json, "getChartBySlug", "data")
resolve_get_asic_price_index(df, json) == Resolve(df, json, "getChartBySlug", "data")

----------------------------------------------------------------------------
\* Inputs.

\* The values of the interval enumeration.
Intervals ==
    {<<"_", "1", "_", "D", "A", "Y">>,
     <<"_", "7", "_", "D", "A", "Y", "S">>,
     <<"_", "1", "_", "M", "O", "N", "T", "H">>,
     <<"_", "3", "_", "M", "O", "N", "T", "H", "S">>,
     <<"_", "1", "_", "Y", "E", "A", "R">>,
     <<"A", "L", "L">>}

UpperOf == [c \in {"u", "s", "d", "b", "t", "c"} |-> CASE c = "u" -> "U" [] c = "s" -> "S" [] c = "d" -> "D" [] c = "b" -> "B" [] c = "t" -> "T" [] c = "c" -> "C"]

\* The strings that differ from w only in letter case.
CaseVariants(w) == {[k \in 1..Len(w) |-> IF k \in up THEN UpperOf[w[k]] ELSE w[k]] : up \in SUBSET (1..Len(w))}

SupportedCurrencies == CaseVariants(<<"u", "s", "d">>) \cup CaseVariants(<<"b", "t", "c">>)
OtherCurrencies == {<<"e", "u", "r">>, <<"E", "U", "R">>, <<>>, <<"u", "s">>, <<"u", "s", "d", "t">>, <<"U", "S", "D", " ">>}
Currencies == SupportedCurrencies \cup OtherCurrencies

\* Arguments a caller of exec writes between the commas.
FirstArgs == Intervals \cup {<<"7">>, <<"0", "7">>, <<"7", "D", "A", "Y", "S">>, <<"^2">>, <<>>}
SecondArgs == {<<"u", "s", "d">>, <<"U", "S", "D">>, <<"e", "u", "r">>, <<"7">>, <<>>}
\* No method takes more than two arguments: further ones count by their number.
LaterArgs == {<<"7">>, <<>>}
ArgLists ==
    UNION {{a \in [1..n -> FirstArgs \cup SecondArgs] :
              a[1] \in FirstArgs /\ (n >= 2 => a[2] \in SecondArgs) /\ \A k \in 3..n : a[k] \in LaterArgs} : n \in 1..MaxArgs}
ExecParams == {<<>>} \cup {Join(a) : a \in ArgLists}

\* Names a caller may pass to exec: methods of the class, an attribute that
\* is no method, and names the object does not have.
ExecNames == (Methods \ {"exec"}) \cup {"host", "network_hashrate", "hashprice", "resolve_get_hashprice"}

\* Raw GraphQL a caller may pass to request.
RawQueries == {StrV(<<"{", "}">>), StrV(<<"q">>)}
RawParams == {NoneV, StrV(<<>>)}

----------------------------------------------------------------------------
\* State.

VARIABLES verbose, df, pc, calls, inv, response, eff, resolved

vars == <<verbose, df, pc, calls, inv, response, eff, resolved>>

NoInv == [op |-> "", args |-> <<>>, method |-> "", params |-> <<>>]
NoResponse == [kind |-> "none", status_code |-> 0, reason |-> "", content |-> EmptyContent]
NoEffect == [out |-> Return(NoneV), sent |-> <<>>, logged |-> <<>>, fwd |-> <<>>]
NoResolved == [by |-> "", out |-> Return(NoneV)]

Direct(op, args) == [op |-> op, args |-> args, method |-> "", params |-> <<>>]

\* The method the invocation ran and the arguments it ran with: the method
\* called directly, or the call exec forwarded.
Called ==
    IF inv.op = "exec"
    THEN (IF Len(eff.fwd) = 1 THEN eff.fwd[1] ELSE [func |-> "", args |-> <<>>])
    ELSE [func |-> inv.op, args |-> inv.args]

\* API(host, key, method, verbose) and RESOLVERS(df) are constructed; nothing
\* has been called.
Init ==
    /\ verbose \in BOOLEAN
    /\ df \in BOOLEAN
    /\ pc = "idle"
    /\ calls = 0
    /\ inv = NoInv
    /\ response = NoResponse
    /\ eff = NoEffect
    /\ resolved = NoResolved

\* The caller is between invocations and the call budget is not used up.
Idle == pc = "idle" /\ calls < MaxCalls

\* One invocation of a method of API, start to end: e is what it did when
\* the transport answers r to each call it makes.
Invoke(i, r, e) ==
    /\ pc' = (IF e.out.kind = "return" THEN "returned" ELSE "raised")
    /\ calls' = calls + Len(e.sent)
    /\ inv' = i
    /\ response' = (IF Len(e.sent) = 0 THEN NoResponse ELSE r)
    /\ eff' = e
    /\ resolved' = NoResolved
    /\ UNCHANGED <<verbose, df>>

Call_request == Idle /\ \E q \in RawQueries, p \in RawParams, r \in Responses : Invoke(Direct("request", <<q, p>>), r, request(verbose, q, p, r))

Call_get_bitcoin_overview == Idle /\ \E r \in Responses : Invoke(Direct("get_bitcoin_overview", <<>>), r, get_bitcoin_overview(verbose, r))

Call_get_hashprice == Idle /\ \E i \in Intervals, c \in Currencies, r \in Responses : Invoke(Direct("get_hashprice", <<StrV(i), StrV(c)>>), r, get_hashprice(verbose, StrV(i), StrV(c), r))

Call_get_network_hashrate == Idle /\ \E i \in Intervals, r \in Responses : Invoke(Direct("get_network_hashrate", <<StrV(i)>>), r, get_network_hashrate(verbose, StrV(i), r))

Call_get_network_difficulty == Idle /\ \E i \in Intervals, r \in Responses : Invoke(Direct("get_network_difficulty", <<StrV(i)>>), r, get_network_difficulty(verbose, StrV(i), r))

Call_get_ohlc_prices == Idle /\ \E i \in Intervals, r \in Responses : Invoke(Direct("get_ohlc_prices", <<StrV(i)>>), r, get_ohlc_prices(verbose, StrV(i), r))

Call_get_asic_price_index == Idle /\ \E i \in Intervals, c \in Currencies, r \in Responses : Invoke(Direct("get_asic_price_index", <<StrV(i), StrV(c)>>), r, get_asic_price_index(verbose, StrV(i), StrV(c), r))

Call_exec == Idle /\ \E m \in ExecNames, p \in ExecParams, r \in Responses : Invoke([op |-> "exec", args |-> <<>>, method |-> m, params |-> p], r, exec(verbose, m, p, r))

\* A resolver of RESOLVERS is given the envelope the call returned: the
\* resolver of the operation that was called, or any resolver after a raw
\* request.
Resolved(by, out) ==
    /\ pc = "returned"
    /\ (Called.func = by \/ inv.op = "request")
    /\ pc' = "resolved"
    /\ resolved' = [by |-> by, out |-> out]
    /\ UNCHANGED <<verbose, df, calls, inv, response, eff>>

Call_resolve_get_bitcoin_overview == Resolved("get_bitcoin_overview", resolve_get_bitcoin_overview(df, eff.out.val))
Call_resolve_get_hashprice == Resolved("get_hashprice", resolve_get_hashprice(df, eff.out.val))
Call_resolve_get_network_hashrate == Resolved("get_network_hashrate", resolve_get_network_hashrate(df, eff.out.val))
Call_resolve_get_network_difficulty == Resolved("get_network_difficulty", resolve_get_network_difficulty(df, eff.out.val))
Call_resolve_get_ohlc_prices == Resolved("get_ohlc_prices", resolve_get_ohlc_prices(df, eff.out.val))
Call_resolve_get_asic_price_index == Resolved("get_asic_price_index", resolve_get_asic_price_index(df, eff.out.val))

\* The caller is done with the result (the main block logs it and exits);
\* request and response envelopes are discarded after the call.
Discard ==
    /\ pc # "idle"
    /\ pc' = "idle"
    /\ inv' = NoInv
    /\ response' = NoResponse
    /\ eff' = NoEffect
    /\ resolved' = NoResolved
    /\ UNCHANGED <<verbose, df, calls>>

Next ==
    \/ Call_request
    \/ Call_get_bitcoin_overview
    \/ Call_get_hashprice
    \/ Call_get_network_hashrate
    \/ Call_get_network_difficulty
    \/ Call_get_ohlc_prices
    \/ Call_get_asic_price_index
    \/ Call_exec
    \/ Call_resolve_get_bitcoin_overview
    \/ Call_resolve_get_hashprice
    \/ Call_resolve_get_network_hashrate
    \/ Call_resolve_get_network_difficulty
    \/ Call_resolve_get_ohlc_prices
    \/ Call_resolve_get_asic_price_index
    \/ Discard

Spec == Init /\ [][Next]_vars

----------------------------------------------------------------------------
\* Vocabulary of the properties.

\* The six operations of the catalog, by the names of their methods.
CatalogMethods == {"get_bitcoin_overview", "get_hashprice", "get_network_hashrate", "get_network_difficulty", "get_ohlc_prices", "get_asic_price_index"}

\* The invocation called a currency operation with an interval and a
\* currency string.
CurrencyCall ==
    /\ pc # "idle"
    /\ Called.func \in {"get_hashprice", "get_asic_price_index"}
    /\ Len(Called.args) = 2
    /\ Called.args[2].t = "str"

\* The lowercase spelling of a supported currency string.
Canonical(c) == CHOOSE w \in {<<"u", "s", "d">>, <<"b", "t", "c">>} : c \in CaseVariants(w)

\* The invocation reaches request: the arguments fit the method and, for a
\* currency operation, the currency is supported.
PassesValidation ==
    \/ (Called.func = "request" /\ Len(Called.args) \in {1, 2})
    \/ (Called.func = "get_bitcoin_overview" /\ Len(Called.args) = 0)
    \/ (Called.func \in {"get_network_hashrate", "get_network_difficulty", "get_ohlc_prices"} /\ Len(Called.args) = 1)
    \/ (CurrencyCall /\ Called.args[2].s \in SupportedCurrencies)

\* The transport answered the invocation's call with an HTTP response.
Answered == pc # "idle" /\ Len(eff.sent) >= 1 /\ response.kind = "response"

\* The extraction path of each operation: json['data'][field][leaf].
FieldOf(op) ==
    CASE op = "get_bitcoin_overview" -> "bitcoinOverviews"
      [] op = "get_hashprice" -> "getHashprice"
      [] op = "get_network_hashrate" -> "getNetworkHashrate"
      [] OTHER -> "getChartBySlug"
LeafOf(op) == IF op \in {"get_bitcoin_overview", "get_hashprice", "get_network_hashrate"} THEN "nodes" ELSE "data"

\* The tree has every key of the path data -> field -> leaf.
HasPath(tree, field, leaf) ==
    /\ tree.t = "obj"
    /\ "data" \in DOMAIN tree.f
    /\ tree.f["data"].t = "obj"
    /\ field \in DOMAIN tree.f["data"].f
    /\ tree.f["data"].f[field].t = "obj"
    /\ leaf \in DOMAIN tree.f["data"].f[field].f

\* Status 200 envelopes of network_difficulty whose records all have a price.
PricedEnvelopes == {Envelope("getChartBySlug", "data", JList(rows)) : rows \in UNION {[1..n -> {RowPrice}] : n \in 0..MaxRows}}

\* The fields of each record of a resolved output: of the elements of the
\* list, or of the rows of the frame (a NaN cell is no field of the row).
OutputRecords(v) ==
    IF v.t = "df"
    THEN [k \in 1..Len(v.rows) |-> {c \in DOMAIN v.rows[k] : v.rows[k][c] # -1}]
    ELSE [k \in 1..Len(v.l) |-> DOMAIN v.l[k].f]

----------------------------------------------------------------------------
\* Properties.

\* C1: get_hashprice and get_asic_price_index, called with a currency string
\* whose lowercase form is neither 'btc' nor 'usd', raise the exception
\* 'Invalid currency input' and hand nothing to the transport.
C1_InvalidCurrencyFailsFast ==
    (CurrencyCall /\ Called.args[2].s \notin SupportedCurrencies)
    => (/\ eff.out = Raise("Exception", <<"Invalid currency input">>)
        /\ eff.sent = <<>>
        /\ response = NoResponse
        /\ pc = "raised")

C1_Witness ==
    /\ CurrencyCall
    /\ inv.op = "get_asic_price_index"
    /\ inv.args = <<StrV(<<"A", "L", "L">>), StrV(<<"E", "U", "R">>)>>
    /\ pc = "raised"
    /\ eff.sent = <<>>

\* C2: exec of get_network_hashrate with an interval as its single argument
\* sends the request body that get_network_hashrate sends when called
\* directly with that interval.
C2_ExecEqualsDirect ==
    (pc # "idle" /\ inv.op = "exec" /\ inv.method = "get_network_hashrate" /\ inv.params \in Intervals)
    => (/\ Len(eff.sent) = 1
        /\ eff.sent = get_network_hashrate(verbose, StrV(inv.params), response).sent
        /\ eff.sent[1].variables = [inputInterval |-> StrV(inv.params), first |-> IntV(PageSize)])

C2_Witness ==
    /\ pc = "returned"
    /\ inv.op = "exec"
    /\ inv.method = "get_network_hashrate"
    /\ inv.params = <<"_", "7", "_", "D", "A", "Y", "S">>
    /\ Len(eff.sent) = 1
    /\ eff.sent[1].variables.inputInterval = StrV(<<"_", "7", "_", "D", "A", "Y", "S">>)

\* C3: exec with a name that is not an operation of the catalog raises
\* 'failed to execute <name>' and forwards to nothing, whatever the
\* arguments are.
C3_UnknownNameNotForwarded ==
    (pc # "idle" /\ inv.op = "exec" /\ inv.method \notin CatalogMethods)
    => (/\ eff.out = Raise("Exception", <<"failed to execute ", inv.method>>)
        /\ eff.fwd = <<>>
        /\ eff.sent = <<>>)

\* The arguments C4 says the operation receives: the pieces between the
\* commas, a piece of decimal digits as that integer, any other unchanged.
C4_Expected(params) ==
    IF Len(params) = 0 THEN <<>>
    ELSE [k \in 1..Len(split(params)) |->
            IF IntAccepts(split(params)[k]) THEN IntV(IntOf(split(params)[k])) ELSE StrV(split(params)[k])]

\* C4: exec of a method of the object forwards exactly one call to it: with
\* no arguments for an empty parameter string, otherwise with the
\* comma-separated pieces in order, digit pieces as integers and every other
\* piece unchanged as a string.
C4_ArgumentCoercion ==
    (pc # "idle" /\ inv.op = "exec" /\ IsCallableAttr(inv.method))
    => (/\ Len(eff.fwd) = 1
        /\ eff.fwd[1].func = inv.method
        /\ eff.fwd[1].args = C4_Expected(inv.params))

C6_RemoteErrorMessage ==
    (Answered /\ response.status_code \notin 200..299)
    => eff.out = Raise("Exception",
                       IF response.content.enc = "empty"
                       THEN <<StatusStr[response.status_code], ": ", response.reason>>
                       ELSE <<StatusStr[response.status_code], ": ", response.reason, ": ", response.content.text>>)

\* C7: for every operation of the catalog, a status 200 response whose JSON
\* body lacks a key of the operation's path data -> field -> leaf makes the
\* call followed by its resolver raise KeyError or TypeError:
\* get_network_difficulty raises it itself, the other operations return and
\* their resolver raises it; the resolver never returns a result.
C7_MissingPathRaises ==
    (/\ Answered
     /\ Called.func \in CatalogMethods
     /\ response.status_code = 200
     /\ response.content.json
     /\ ~HasPath(response.content.tree, FieldOf(Called.func), LeafOf(Called.func)))
    => (/\ (Called.func = "get_network_difficulty" => pc = "raised")
        /\ (pc = "raised" => (Called.func = "get_network_difficulty" /\ eff.out.err \in {"KeyError", "TypeError"}))
        /\ ((pc = "resolved" /\ resolved.by = Called.func)
             => (resolved.out.kind = "raise" /\ resolved.out.err \in {"KeyError", "TypeError"})))

C7_Witness ==
    /\ pc = "resolved"
    /\ inv.op = "get_hashprice"
    /\ resolved.by = "get_hashprice"
    /\ response.status_code = 200
    /\ response.content.tree = Obj([errors |-> JList(<<>>)])
    /\ resolved.out.kind = "raise"
    /\ resolved.out.err = "KeyError"

\* C8: for a currency string that differs from 'usd' or 'btc' only in letter
\* case, get_hashprice sends the query with the field
\* '<lowercase currency>Hashprice' and get_asic_price_index sends the slug
\* 'asic-price-index-<lowercase currency>', so the body is the one the
\* lowercase spelling sends.
C8_CaseInsensitiveCurrency ==
    (CurrencyCall /\ Called.args[2].s \in SupportedCurrencies)
    => (/\ Len(eff.sent) = 1
        /\ (Called.func = "get_hashprice"
             => eff.sent[1] = RequestBody(HashpriceQuery(Canonical(Called.args[2].s) \o <<"Hashprice">>),
                                          [inputInterval |-> Called.args[1], first |-> IntV(PageSize)]))
        /\ (Called.func = "get_asic_price_index"
             => (/\ eff.sent[1].variables = [inputInterval |-> Called.args[1],
                                             inputSlug |-> StrV(<<"asic-price-index-">> \o Canonical(Called.args[2].s))]
                 /\ eff.sent = get_asic_price_index(verbose, Called.args[1], StrV(Canonical(Called.args[2].s)), response).sent)))

C8_Witness ==
    /\ CurrencyCall
    /\ inv.op = "get_hashprice"
    /\ inv.args[2] = StrV(<<"U", "s", "D">>)
    /\ Len(eff.sent) = 1
    /\ eff.sent[1].query = HashpriceQuery(<<"u", "s", "d", "Hashprice">>)

\* C9: every invocation that reaches request hands exactly one body to the
\* transport, whatever the transport does with it, and every other
\* invocation hands it none; no step adds a second call.
C9_ExactlyOneCall ==
    [][/\ calls' - calls = (IF pc = "idle" /\ pc' # "idle" /\ PassesValidation' THEN 1 ELSE 0)
       /\ ((pc = "idle" /\ pc' # "idle") => Len(eff'.sent) = calls' - calls)]_vars

C9_Witness ==
    /\ pc = "raised"
    /\ inv.op = "get_ohlc_prices"
    /\ response = TransportFailure
    /\ Len(eff.sent) = 1
    /\ calls = MaxCalls

\* C10 as stated: request returns the decoded envelope if and only if the
\* status code is 200.
C10_ReturnsIffStatus200 ==
    (Answered /\ Called.func = "request")
    => (/\ (eff.out.kind = "return") <=> (response.status_code = 200)
        /\ (eff.out.kind = "return" => eff.out.val = response.content.tree))

\* C10: request returns only for status code 200, and what it returns is the
\* parsed JSON body; a status 200 body that is no JSON document raises the
\* decoder's error; every other status code, 201 and 204 included, raises.
C10_ReturnsOnlyFor200 ==
    (Answered /\ Called.func = "request")
    => (/\ (eff.out.kind = "return") <=> (response.status_code = 200 /\ response.content.json)
        /\ (eff.out.kind = "return" => eff.out.val = response.content.tree)
        /\ ((response.status_code = 200 /\ ~response.content.json) => eff.out = Raise("JSONDecodeError", <<>>))
        /\ (response.status_code # 200 => (eff.out.kind = "raise" /\ eff.out.err \in {"Exception", "UnicodeDecodeError"})))

C10_Witness ==
    /\ Answered
    /\ inv.op = "request"
    /\ response.status_code = 201
    /\ response.content.json
    /\ pc = "raised"
    /\ eff.out.kind = "raise"

====
